---- MODULE Spec2Model ----
(***************************************************************************)
(* Model of lndmanage/lib/fee_setting.py: the FeeSetter class, its         *)
(* set_fees driver, the per-channel loop of new_fee_policy and the four    *)
(* change-factor functions.                                                *)
(*                                                                         *)
(* Python floats are modelled as exact rationals <<n, d>> in lowest terms  *)
(* with d > 0, so 0.025 is <<1, 40>> and the int 0 is <<0, 1>>.  Base fees *)
(* are integers (msat).                                                    *)
(***************************************************************************)
EXTENDS Integers, FiniteSets, TLC

(***************************************************************************)
(* Exact rational arithmetic.  The operations are functions, so that an    *)
(* argument is evaluated once, before the operation is applied.            *)
(***************************************************************************)
Rat == Int \X Int

Abs[n \in Int] == IF n < 0 THEN -n ELSE n

GCD[a \in Nat, b \in Nat] == IF b = 0 THEN a ELSE GCD[b, a % b]

LCM[a \in Nat, b \in Nat] == (a \div GCD[a, b]) * b

Norm[n \in Int, d \in Nat] ==
    LET g == GCD[Abs[n], d]
    IN  <<(IF n < 0 THEN -(Abs[n] \div g) ELSE n \div g), d \div g>>

\* the rational n / d, d > 0
Q[n \in Int, d \in Nat] == Norm[n, d]

Zero == <<0, 1>>
One == <<1, 1>>

RAdd[x \in Rat, y \in Rat] ==
    LET l == LCM[x[2], y[2]]
    IN  Norm[x[1] * (l \div x[2]) + y[1] * (l \div y[2]), l]

RNeg[x \in Rat] == <<-x[1], x[2]>>

RSub[x \in Rat, y \in Rat] == RAdd[x, RNeg[y]]

RMul[x \in Rat, y \in Rat] ==
    LET g1 == GCD[Abs[x[1]], y[2]]
        g2 == GCD[Abs[y[1]], x[2]]
    IN  IF x[1] = 0 \/ y[1] = 0
        THEN Zero
        ELSE <<(x[1] \div g1) * (y[1] \div g2), (x[2] \div g2) * (y[2] \div g1)>>

\* x / y for y > 0
RDiv[x \in Rat, y \in Rat] == RMul[x, <<y[2], y[1]>>]

RLess[x \in Rat, y \in Rat] ==
    LET l == LCM[x[2], y[2]]
    IN  x[1] * (l \div x[2]) < y[1] * (l \div y[2])

RLeq[x \in Rat, y \in Rat] == ~RLess[y, x]

\* Python's min(a, b) and max(a, b): the first argument wins a tie
RMin[x \in Rat, y \in Rat] == IF RLess[y, x] THEN y ELSE x
RMax[x \in Rat, y \in Rat] == IF RLess[x, y] THEN y ELSE x

\* floor of a rational
Floor[x \in Rat] == x[1] \div x[2]

\* Python's int(): truncation toward zero
Trunc[x \in Rat] == IF x[1] >= 0 THEN x[1] \div x[2] ELSE -((-x[1]) \div x[2])

\* round(x * w, 6): the product to the nearest multiple of 10^-6, ties to
\* even; x is scaled by 10^6 before the multiplication to keep the
\* intermediate fractions small
Round6[x \in Rat, w \in Rat] ==
    LET y == RMul[RMul[x, <<1000000, 1>>], w]
        f == Floor[y]
        r == RSub[y, <<f, 1>>]
        half == <<1, 2>>
        n == IF RLess[r, half] THEN f
             ELSE IF RLess[half, r] THEN f + 1
             ELSE IF f % 2 = 0 THEN f ELSE f + 1
    IN  Norm[n, 1000000]

(***************************************************************************)
(* Module constants, fee_setting.py lines 10-17.                           *)
(***************************************************************************)
FEE_LOCK_RATE == <<1, 40>>
THRESHOLD_UB_OPEN == <<-1, 2>>
THRESHOLD_UB_CLOSE == <<19, 20>>

(***************************************************************************)
(* The change factors, fee_setting.py lines 249-344.                       *)
(***************************************************************************)
factor_unbalancedness(ub) ==
    LET c_max == <<1, 2>>
        rescale == <<1, 2>>
        c == RAdd[One, RMul[ub, rescale]]
    IN  IF RLess[One, c]
        THEN RMin[c, RAdd[One, c_max]]
        ELSE RMax[c, RSub[One, c_max]]

factor_flow(flow) ==
    LET c_max == <<1, 2>>
        rescale == <<1, 2>>
        c == RAdd[One, RMul[flow, rescale]]
    IN  IF RLess[One, c]
        THEN RMin[c, RAdd[One, c_max]]
        ELSE RMax[c, RSub[One, c_max]]

factor_demand_fee_rate(amount_out, time_interval_days) ==
    LET rate == Q[amount_out, time_interval_days]
        c_min == <<1, 4>>
        c_max == One
        rate_target == <<500000, 7>>
        c == RAdd[RMul[c_min, RSub[RDiv[rate, rate_target], One]], One]
    IN  RMin[c, RAdd[One, c_max]]

\* variant: the factor ignores the number of forwardings
factor_demand_base_fee_flat(num_fwd_out, time_interval_days) == One

factor_demand_base_fee(num_fwd_out, time_interval_days) ==
    LET c_min == <<1, 4>>
        c_max == One
        num_fwd_target == <<5, 7>>
        c == RAdd[RMul[c_min,
                       RSub[RDiv[Q[num_fwd_out, time_interval_days],
                                 num_fwd_target], One]], One]
    IN  RMin[c, RAdd[One, c_max]]

(***************************************************************************)
(* Bounds and the inputs the runs are drawn from.                          *)
(***************************************************************************)
\* number of set_fees calls explored
MaxRuns == 1

\* channel ids of the node and the channel_point of each (one per channel)
ChannelIds == {"c1", "c2"}
ChannelPoint(channel_id) == IF channel_id = "c1" THEN "p1" ELSE "p2"
ChannelPoints == {ChannelPoint(c) : c \in ChannelIds}

\* fee policies the node may hold before the first run
InitialPolicies ==
    { [fee_rate |-> Zero,          base_fee_msat |-> 30,  cltv |-> 40],
      [fee_rate |-> Q[1, 100000],  base_fee_msat |-> 400, cltv |-> 40],
      [fee_rate |-> FEE_LOCK_RATE, base_fee_msat |-> 10,  cltv |-> 40] }

\* arguments of set_fees: the defaults of its signature, an initialization
\* run with a narrow fee-rate band, and an interactive run with a band above
\* FEE_LOCK_RATE
DefaultParams ==
    [cltv |-> 14, min_base_fee_msat |-> 20, max_base_fee_msat |-> 400,
     min_fee_rate |-> Q[4, 1000000], max_fee_rate |-> Q[100, 1000000],
     time_interval_days |-> 7, init |-> FALSE, reckless |-> TRUE]

ParamChoices ==
    { DefaultParams,
      [DefaultParams EXCEPT !.init = TRUE,
                            !.min_fee_rate = Q[80, 1000000]],
      [DefaultParams EXCEPT !.min_fee_rate = Q[3, 100],
                            !.max_fee_rate = Q[4, 100],
                            !.min_base_fee_msat = 2,
                            !.time_interval_days = 1,
                            !.reckless = FALSE] }

NoStats ==
    [flow_direction |-> Zero, total_forwarding_in |-> 0,
     total_forwarding_out |-> 0, number_forwardings |-> 0,
     number_forwardings_out |-> 0]

\* what get_all_channels and the forwarding analyzer may report for a channel
ChannelInputs ==
    { [unbalancedness |-> Q[-7, 10], has_stats |-> FALSE, stats |-> NoStats],
      [unbalancedness |-> Q[-1, 5], has_stats |-> TRUE,
       stats |-> [flow_direction |-> One, total_forwarding_in |-> 0,
                  total_forwarding_out |-> 10000, number_forwardings |-> 2,
                  number_forwardings_out |-> 2]],
      [unbalancedness |-> Q[49, 50], has_stats |-> FALSE, stats |-> NoStats],
      [unbalancedness |-> Zero, has_stats |-> TRUE,
       stats |-> [flow_direction |-> Q[1, 2], total_forwarding_in |-> 100000,
                  total_forwarding_out |-> 1000000, number_forwardings |-> 12,
                  number_forwardings_out |-> 10]] }

(***************************************************************************)
(* State.                                                                  *)
(***************************************************************************)
VARIABLES
    node_policies,              \* the node's fee policies, by channel_point
    channel_fee_policies,       \* self.channel_fee_policies
    params,                     \* self.min_fee_rate, ..., and reckless
    pc,                         \* "idle", "loop" (in new_fee_policy), "confirm"
    channels,                   \* the snapshot get_all_channels returned
    channels_forwarding_stats,  \* forwarding statistics, by channel id
    todo,                       \* channel ids the loop has not visited yet
    new_policies,               \* the local channel_fee_policies being built
    wgt_flow,                   \* the local wgt_flow of new_fee_policy
    runs                        \* set_fees calls so far

vars == <<node_policies, channel_fee_policies, params, pc, channels,
          channels_forwarding_stats, todo, new_policies, wgt_flow, runs>>

Empty == [k \in {} |-> 0]

(***************************************************************************)
(* The body of the loop of new_fee_policy.                                 *)
(***************************************************************************)
\* lines 107-124: a channel without statistics counts as no activity
Ingest(stats, channel_id) ==
    IF channel_id \in DOMAIN stats
    THEN LET s == stats[channel_id]
         IN  [flow |-> s.flow_direction,
              total_forwarding_in |-> s.total_forwarding_in,
              total_forwarding_out |-> s.total_forwarding_out,
              total_forwarding |->
                  s.total_forwarding_in + s.total_forwarding_out,
              number_forwardings |-> s.number_forwardings,
              number_forwardings_out |-> s.number_forwardings_out]
    ELSE [flow |-> Zero, total_forwarding_in |-> 0,
          total_forwarding_out |-> 0, total_forwarding |-> 0,
          number_forwardings |-> 0, number_forwardings_out |-> 0]

\* variant: wgt_flow assigned once before the loop, so an iteration starts
\* from what the last one left
WgtFlowKept(previous) == previous

\* line 148: wgt_flow is assigned anew in every iteration
WgtFlowStart(previous) == Q[6, 10]

\* lines 155-156
WgtFlow(previous, st) ==
    IF st.total_forwarding = 0 THEN Zero ELSE WgtFlowStart(previous)

\* lines 146-163
WeightedChange(ub, st, days, wgt_flow_used) ==
    LET wgt_demand == Q[13, 10]
        wgt_ub == One
        factor_demand == factor_demand_fee_rate(st.total_forwarding_out, days)
        factor_ub == factor_unbalancedness(ub)
        factor_fl == factor_flow(st.flow)
    IN  RDiv[RAdd[RAdd[RMul[wgt_ub, factor_ub],
                       RMul[wgt_flow_used, factor_fl]],
                  RMul[wgt_demand, factor_demand]],
             RAdd[RAdd[wgt_ub, wgt_flow_used], wgt_demand]]

\* lines 181-186
ClampedRate(p, fee_rate, weighted_change) ==
    RMin[RMax[p.min_fee_rate, Round6[fee_rate, weighted_change]],
         p.max_fee_rate]

\* variant: the rule that enters open mode is missing
OpenModeNoEnter(p, fee_rate, fee_rate_new, ub, total_forwarding_out) ==
    IF fee_rate = Zero /\ total_forwarding_out > 0
       /\ RLess[THRESHOLD_UB_OPEN, ub]
    THEN p.min_fee_rate
    ELSE fee_rate_new

\* variant: open mode is entered on a low fee rate alone
OpenModeLowFeeOnly(p, fee_rate, fee_rate_new, ub, total_forwarding_out) ==
    IF RLeq[fee_rate, p.min_fee_rate]
    THEN Zero
    ELSE IF fee_rate = Zero /\ total_forwarding_out > 0
            /\ RLess[THRESHOLD_UB_OPEN, ub]
         THEN p.min_fee_rate
         ELSE fee_rate_new

\* lines 192-201
OpenModeOverlay(p, fee_rate, fee_rate_new, ub, total_forwarding_out) ==
    IF RLeq[fee_rate, p.min_fee_rate] /\ RLess[ub, THRESHOLD_UB_OPEN]
       /\ total_forwarding_out = 0
    THEN Zero
    ELSE IF fee_rate = Zero /\ total_forwarding_out > 0
            /\ RLess[THRESHOLD_UB_OPEN, ub]
         THEN p.min_fee_rate
         ELSE fee_rate_new

\* variant: the leave-locked rule comes first and does not look at ub
LockedModeLeaveFirst(p, fee_rate, fee_rate_new, ub, total_forwarding_out) ==
    IF fee_rate = FEE_LOCK_RATE
    THEN RDiv[p.max_fee_rate, <<2, 1>>]
    ELSE IF RLess[THRESHOLD_UB_CLOSE, ub] /\ total_forwarding_out = 0
         THEN FEE_LOCK_RATE
         ELSE fee_rate_new

\* lines 204-209
LockedModeOverlay(p, fee_rate, fee_rate_new, ub, total_forwarding_out) ==
    IF RLess[THRESHOLD_UB_CLOSE, ub] /\ total_forwarding_out = 0
    THEN FEE_LOCK_RATE
    ELSE IF fee_rate = FEE_LOCK_RATE /\ RLess[ub, THRESHOLD_UB_CLOSE]
         THEN RDiv[p.max_fee_rate, <<2, 1>>]
         ELSE fee_rate_new

\* lines 174-177
InitRate(p, weighted_change) ==
    IF RLess[weighted_change, One]
    THEN p.min_fee_rate
    ELSE RDiv[p.max_fee_rate, <<2, 1>>]

\* lines 181-209
SteadyRate(p, fee_rate, ub, total_forwarding_out, weighted_change) ==
    LockedModeOverlay(p, fee_rate,
        OpenModeOverlay(p, fee_rate, ClampedRate(p, fee_rate, weighted_change),
                        ub, total_forwarding_out),
        ub, total_forwarding_out)

\* variant: the mode rules are outside the if/else on self.init
FeeRateNewOverlayAlways(p, fee_rate, ub, total_forwarding_out, weighted_change) ==
    LockedModeOverlay(p, fee_rate,
        OpenModeOverlay(p, fee_rate,
            (IF p.init THEN InitRate(p, weighted_change)
             ELSE ClampedRate(p, fee_rate, weighted_change)),
            ub, total_forwarding_out),
        ub, total_forwarding_out)

\* lines 173-209
FeeRateNew(p, fee_rate, ub, total_forwarding_out, weighted_change) ==
    IF p.init
    THEN InitRate(p, weighted_change)
    ELSE SteadyRate(p, fee_rate, ub, total_forwarding_out, weighted_change)

\* variant: the steady-state base fee is not held at min_base_fee_msat
BaseFeeNewNoFloor(p, base_fee_msat, factor_base_fee) ==
    IF p.init
    THEN (IF RLess[factor_base_fee, One]
          THEN p.min_base_fee_msat ELSE p.max_base_fee_msat)
    ELSE Trunc[RMul[<<base_fee_msat, 1>>, factor_base_fee]]

\* lines 217-224
BaseFeeNew(p, base_fee_msat, factor_base_fee) ==
    IF p.init
    THEN (IF RLess[factor_base_fee, One]
          THEN p.min_base_fee_msat ELSE p.max_base_fee_msat)
    ELSE Trunc[RMax[<<p.min_base_fee_msat, 1>>,
                    RMul[<<base_fee_msat, 1>>, factor_base_fee]]]

\* lines 106-245: the entry one iteration computes for a channel, given the
\* wgt_flow the previous iteration left behind
LoopBody(p, current, channel_data, st, wgt_flow_before) ==
    LET ub == channel_data.unbalancedness
        weighted_change ==
            WeightedChange(ub, st, p.time_interval_days,
                           WgtFlow(wgt_flow_before, st))
        factor_base_fee ==
            factor_demand_base_fee(st.number_forwardings_out,
                                   p.time_interval_days)
    IN  [base_fee_msat |->
             BaseFeeNew(p, current.base_fee_msat, factor_base_fee),
         fee_rate |->
             FeeRateNew(p, current.fee_rate, ub, st.total_forwarding_out,
                        weighted_change),
         cltv |-> p.cltv]

\* variant: the dict is replaced instead of updated
StoreEntryFresh(policies, key, entry) == [k \in {key} |-> entry]

\* lines 241-245: channel_fee_policies[channel_point] = {...}
StoreEntry(policies, key, entry) ==
    [k \in DOMAIN policies \cup {key} |->
        IF k = key THEN entry ELSE policies[k]]

(***************************************************************************)
(* Initial state: a FeeSetter has just been constructed on a node that has *)
(* one or both channels open.                                              *)
(* The attributes set_fees assigns do not exist yet; params holds the      *)
(* signature defaults and is not read before set_fees assigns it.          *)
(***************************************************************************)
Init ==
    /\ \E open \in {{"p1"}, ChannelPoints} :
           node_policies \in [open -> InitialPolicies]
    /\ channel_fee_policies = node_policies
    /\ params = DefaultParams
    /\ pc = "idle"
    /\ channels = Empty
    /\ channels_forwarding_stats = Empty
    /\ todo = {}
    /\ new_policies = Empty
    /\ wgt_flow = Q[6, 10]
    /\ runs = 0

(***************************************************************************)
(* FeeSetter.__init__, lines 24-32: the current policies are read here.    *)
(* Constructing a FeeSetter while the policies read last are still the     *)
(* node's changes nothing and is left out.                                 *)
(***************************************************************************)
Construct ==
    /\ pc = "idle"
    /\ channel_fee_policies # node_policies
    /\ channel_fee_policies' = node_policies
    /\ UNCHANGED <<node_policies, params, pc, channels,
                   channels_forwarding_stats, todo, new_policies, wgt_flow,
                   runs>>

(***************************************************************************)
(* A channel is opened on the node; it starts with one of the initial      *)
(* policies.                                                               *)
(***************************************************************************)
OpenChannel ==
    /\ pc = "idle"
    /\ \E cp \in ChannelPoints \ DOMAIN node_policies, pol \in InitialPolicies :
           node_policies' =
               [k \in DOMAIN node_policies \cup {cp} |->
                   IF k = cp THEN pol ELSE node_policies[k]]
    /\ UNCHANGED <<channel_fee_policies, params, pc, channels,
                   channels_forwarding_stats, todo, new_policies, wgt_flow,
                   runs>>

(***************************************************************************)
(* set_fees, lines 60-76, up to the call of new_fee_policy and the first   *)
(* lines of it (101-104).  `inputs` is what the node and the forwarding    *)
(* analyzer report for each open channel.                                  *)
(***************************************************************************)
OpenIds == {c \in ChannelIds : ChannelPoint(c) \in DOMAIN node_policies}

SetFeesWith(p, inputs) ==
    /\ pc = "idle"
    /\ params' = p
    /\ channels' =
           [c \in DOMAIN inputs |->
               [unbalancedness |-> inputs[c].unbalancedness,
                channel_point |-> ChannelPoint(c)]]
    /\ channels_forwarding_stats' =
           [c \in {x \in DOMAIN inputs : inputs[x].has_stats} |->
               inputs[c].stats]
    /\ todo' = DOMAIN inputs
    /\ new_policies' = Empty
    /\ wgt_flow' = Q[6, 10]
    /\ pc' = "loop"
    /\ UNCHANGED <<node_policies, channel_fee_policies>>

SetFeesUpTo(limit) ==
    /\ runs < limit
    /\ runs' = runs + 1
    /\ \E p \in ParamChoices, inputs \in [OpenIds -> ChannelInputs] :
           SetFeesWith(p, inputs)

SetFees == SetFeesUpTo(MaxRuns)

(***************************************************************************)
(* One iteration of the loop of new_fee_policy, lines 106-245, and the     *)
(* return (line 247) after the last one.                                   *)
(***************************************************************************)
ProcessChannel(channel_id) ==
    /\ pc = "loop"
    /\ channel_id \in todo
    /\ channels[channel_id].channel_point \in DOMAIN channel_fee_policies
    /\ LET channel_data == channels[channel_id]
           st == Ingest(channels_forwarding_stats, channel_id)
           current == channel_fee_policies[channel_data.channel_point]
       IN  /\ new_policies' =
                  StoreEntry(new_policies, channel_data.channel_point,
                             LoopBody(params, current, channel_data, st,
                                      wgt_flow))
           /\ wgt_flow' = WgtFlow(wgt_flow, st)
    /\ todo' = todo \ {channel_id}
    /\ pc' = IF todo' = {} THEN "confirm" ELSE "loop"
    /\ UNCHANGED <<node_policies, channel_fee_policies, params, channels,
                   channels_forwarding_stats, runs>>

\* lines 129-134: a channel_point unknown at construction raises KeyError,
\* which ends new_fee_policy and set_fees without a result
RaiseKeyError(channel_id) ==
    /\ pc = "loop"
    /\ channel_id \in todo
    /\ channels[channel_id].channel_point \notin DOMAIN channel_fee_policies
    /\ pc' = "idle"
    /\ channels' = Empty
    /\ channels_forwarding_stats' = Empty
    /\ todo' = {}
    /\ new_policies' = Empty
    /\ wgt_flow' = Q[6, 10]
    /\ UNCHANGED <<node_policies, channel_fee_policies, params, runs>>

(***************************************************************************)
(* set_fees, lines 78-87: the policies are handed to the node when the     *)
(* run is reckless or the user answers yes.                                *)
(***************************************************************************)
SetChannelFeePolicies ==
    /\ pc = "confirm"
    /\ node_policies' =
           [k \in DOMAIN node_policies |->
               IF k \in DOMAIN new_policies
               THEN new_policies[k] ELSE node_policies[k]]
    /\ pc' = "idle"
    /\ channels' = Empty
    /\ channels_forwarding_stats' = Empty
    /\ todo' = {}
    /\ new_policies' = Empty
    /\ wgt_flow' = Q[6, 10]
    /\ UNCHANGED <<channel_fee_policies, params, runs>>

\* lines 83-84: the user answers no
Decline ==
    /\ pc = "confirm"
    /\ ~params.reckless
    /\ pc' = "idle"
    /\ channels' = Empty
    /\ channels_forwarding_stats' = Empty
    /\ todo' = {}
    /\ new_policies' = Empty
    /\ wgt_flow' = Q[6, 10]
    /\ UNCHANGED <<node_policies, channel_fee_policies, params, runs>>

Next ==
    \/ Construct
    \/ OpenChannel
    \/ SetFees
    \/ \E c \in ChannelIds : ProcessChannel(c)
    \/ \E c \in ChannelIds : RaiseKeyError(c)
    \/ SetChannelFeePolicies
    \/ Decline

Spec == Init /\ [][Next]_vars

(***************************************************************************)
(* The same FeeSetter used for one more run than Spec explores.            *)
(***************************************************************************)
SetFeesAgain == SetFeesUpTo(MaxRuns + 1)

NextReuse ==
    \/ Construct
    \/ OpenChannel
    \/ SetFeesAgain
    \/ \E c \in ChannelIds : ProcessChannel(c)
    \/ \E c \in ChannelIds : RaiseKeyError(c)
    \/ SetChannelFeePolicies
    \/ Decline

SpecReuse == Init /\ [][NextReuse]_vars

(***************************************************************************)
(* Repeated steady-state runs with the same arguments on channels without  *)
(* outward forwardings.  Every run is made by a newly constructed          *)
(* FeeSetter (as the script at the end of the file does) and its policies  *)
(* are handed to the node, so a run starts from what the last one wrote.   *)
(***************************************************************************)
IdleInputs ==
    {i \in ChannelInputs : i.stats.number_forwardings_out = 0}
    \cup { [unbalancedness |-> Q[49, 50], has_stats |-> TRUE,
            stats |-> [flow_direction |-> RNeg[One],
                       total_forwarding_in |-> 50000,
                       total_forwarding_out |-> 0, number_forwardings |-> 1,
                       number_forwardings_out |-> 0]] }

InitIdle ==
    /\ \E open \in {{"p1"}, ChannelPoints} :
           node_policies \in [open -> InitialPolicies]
    /\ channel_fee_policies = node_policies
    /\ params \in {p \in ParamChoices : ~p.init}
    /\ pc = "idle"
    /\ channels = Empty
    /\ channels_forwarding_stats = Empty
    /\ todo = {}
    /\ new_policies = Empty
    /\ wgt_flow = Q[6, 10]
    /\ runs = 0

SetFeesIdle ==
    /\ channel_fee_policies = node_policies
    /\ \E inputs \in [OpenIds -> IdleInputs] : SetFeesWith(params, inputs)
    /\ UNCHANGED runs

NextIdle ==
    \/ Construct
    \/ SetFeesIdle
    \/ \E c \in ChannelIds : ProcessChannel(c)
    \/ SetChannelFeePolicies

SpecIdle == InitIdle /\ [][NextIdle]_vars /\ WF_vars(NextIdle)

(***************************************************************************)
(* Properties.  They look at the channels the loop has visited in the run  *)
(* in progress: the entry written for a channel, the current policy read   *)
(* for it and the statistics it was given.                                 *)
(***************************************************************************)
Processed == DOMAIN channels \ todo
Cur(c) == channel_fee_policies[channels[c].channel_point]
Out(c) == new_policies[channels[c].channel_point]
St(c) == Ingest(channels_forwarding_stats, c)
Ub(c) == channels[c].unbalancedness
Steady == pc \in {"loop", "confirm"} /\ ~params.init
Initializing == pc \in {"loop", "confirm"} /\ params.init
HalfMax == RDiv[params.max_fee_rate, <<2, 1>>]

\* C1: every fee rate written lies in [min_fee_rate, max_fee_rate] or is
\* exactly 0 or exactly FEE_LOCK_RATE.
C1_RateInBandOrMode ==
    \A c \in Processed :
        LET r == Out(c).fee_rate
        IN  \/ RLeq[params.min_fee_rate, r] /\ RLeq[r, params.max_fee_rate]
            \/ r = Zero
            \/ r = FEE_LOCK_RATE

\* C2: the policy map holds exactly one entry per visited channel, keyed by
\* its channel_point, so the returned map has as many entries as the
\* snapshot has channels.
C2_OneEntryPerChannel ==
    /\ DOMAIN new_policies = {channels[c].channel_point : c \in Processed}
    /\ Cardinality(DOMAIN new_policies) = Cardinality(Processed)
    /\ pc = "confirm" => Processed = DOMAIN channels

C2_Witness ==
    /\ pc = "confirm"
    /\ Cardinality(DOMAIN channels) = 2
    /\ Cardinality(DOMAIN new_policies) = 2

\* C3: the current fee rate and base fee a run uses for a channel are the
\* ones the node holds, that is the ones the previous run wrote.
C3_RunUsesPersistedPolicy ==
    pc = "loop" =>
        \A c \in DOMAIN channels :
            LET cp == channels[c].channel_point
            IN  cp \in DOMAIN channel_fee_policies =>
                    /\ channel_fee_policies[cp].fee_rate
                           = node_policies[cp].fee_rate
                    /\ channel_fee_policies[cp].base_fee_msat
                           = node_policies[cp].base_fee_msat

EnterOpen(c) ==
    /\ RLeq[Cur(c).fee_rate, params.min_fee_rate]
    /\ RLess[Ub(c), THRESHOLD_UB_OPEN]
    /\ St(c).total_forwarding_out = 0

EnterLocked(c) ==
    /\ RLess[THRESHOLD_UB_CLOSE, Ub(c)]
    /\ St(c).total_forwarding_out = 0

\* C4 as stated: in a steady-state run a channel with current fee rate at
\* most min_fee_rate, ub below THRESHOLD_UB_OPEN and no outward forwarding
\* gets fee rate 0.
C4_EnterOpenAlways ==
    Steady => \A c \in Processed : EnterOpen(c) => Out(c).fee_rate = Zero

\* C4 amended: such a channel gets fee rate 0 unless its current fee rate
\* is FEE_LOCK_RATE, and then the leave-locked rule overrides the 0 with
\* max_fee_rate / 2.
C4_EnterOpen ==
    Steady =>
        \A c \in Processed :
            EnterOpen(c) =>
                Out(c).fee_rate =
                    IF Cur(c).fee_rate = FEE_LOCK_RATE THEN HalfMax ELSE Zero

C4_Witness ==
    /\ Steady
    /\ \E c \in Processed :
           /\ EnterOpen(c)
           /\ Cur(c).fee_rate # FEE_LOCK_RATE
           /\ Out(c).fee_rate = Zero
    /\ \E c \in Processed :
           /\ EnterOpen(c)
           /\ Cur(c).fee_rate = FEE_LOCK_RATE
           /\ Out(c).fee_rate = HalfMax

\* C5: in a steady-state run a channel with ub above THRESHOLD_UB_CLOSE and
\* no outward forwarding gets FEE_LOCK_RATE, whatever its current rate and
\* the band.
C5_EnterLocked ==
    Steady =>
        \A c \in Processed : EnterLocked(c) => Out(c).fee_rate = FEE_LOCK_RATE

C5_Witness ==
    /\ Steady
    /\ \E c \in Processed : EnterLocked(c) /\ Cur(c).fee_rate = FEE_LOCK_RATE
    /\ \E c \in Processed : EnterLocked(c) /\ Cur(c).fee_rate = Zero

\* C6: in a steady-state run a channel with current fee rate 0, outward
\* forwarding and ub above THRESHOLD_UB_OPEN gets exactly min_fee_rate.
C6_LeaveOpen ==
    Steady =>
        \A c \in Processed :
            (/\ Cur(c).fee_rate = Zero
             /\ St(c).total_forwarding_out > 0
             /\ RLess[THRESHOLD_UB_OPEN, Ub(c)])
            => Out(c).fee_rate = params.min_fee_rate

C6_Witness ==
    /\ Steady
    /\ \E c \in Processed :
           /\ Cur(c).fee_rate = Zero
           /\ St(c).total_forwarding_out > 0
           /\ RLess[THRESHOLD_UB_OPEN, Ub(c)]
           /\ Out(c).fee_rate = params.min_fee_rate

BaseFactor(c) ==
    factor_demand_base_fee(St(c).number_forwardings_out,
                           params.time_interval_days)

\* current_base_fee * factor_base_fee rounded down
ScaledBase(c) == (Cur(c).base_fee_msat * BaseFactor(c)[1]) \div BaseFactor(c)[2]

\* C7: in a steady-state run the base fee written is
\* max(min_base_fee, round_down(current_base_fee * factor_base_fee)), hence
\* at least min_base_fee; in an initialization run it is min_base_fee when
\* factor_base_fee < 1 and max_base_fee otherwise; the mode overlay leaves
\* it alone.
C7_BaseFee ==
    \A c \in Processed :
        IF params.init
        THEN Out(c).base_fee_msat =
                 IF BaseFactor(c)[1] < BaseFactor(c)[2]
                 THEN params.min_base_fee_msat
                 ELSE params.max_base_fee_msat
        ELSE /\ Out(c).base_fee_msat >= params.min_base_fee_msat
             /\ Out(c).base_fee_msat =
                    IF ScaledBase(c) > params.min_base_fee_msat
                    THEN ScaledBase(c)
                    ELSE params.min_base_fee_msat

C7_Witness ==
    /\ Steady
    /\ \E c \in Processed :
           /\ ScaledBase(c) < params.min_base_fee_msat
           /\ Out(c).base_fee_msat = params.min_base_fee_msat
    /\ \E c \in Processed :
           /\ ScaledBase(c) > params.min_base_fee_msat
           /\ (Cur(c).base_fee_msat * BaseFactor(c)[1]) % BaseFactor(c)[2] # 0
           /\ Out(c).fee_rate = FEE_LOCK_RATE

\* C8: the entry of a channel is what the loop body computes from the
\* channel's own snapshot data, statistics and current policy and the run's
\* arguments, whichever channels were visited before it and whatever their
\* inputs were.
C8_ChannelsIndependent ==
    \A c \in Processed :
        Out(c) = LoopBody(params, Cur(c), channels[c], St(c), Q[6, 10])

C8_Witness ==
    /\ pc = "confirm"
    /\ \E c, d \in Processed :
           /\ c # d
           /\ St(c).total_forwarding > 0
           /\ St(d).total_forwarding = 0
           /\ Cur(c).fee_rate = Q[1, 100000]
           /\ ~params.init

\* C9: in an initialization run the fee rate written is min_fee_rate when
\* weighted_change < 1 and max_fee_rate / 2 otherwise, also for a channel
\* that meets the condition of open or locked mode.
C9_InitRate ==
    Initializing =>
        \A c \in Processed :
            LET wc == WeightedChange(Ub(c), St(c), params.time_interval_days,
                          IF St(c).total_forwarding = 0 THEN Zero ELSE Q[6, 10])
            IN  Out(c).fee_rate =
                    IF wc[1] < wc[2] THEN params.min_fee_rate ELSE HalfMax

C9_Witness ==
    /\ Initializing
    /\ \E c \in Processed : EnterLocked(c) /\ Out(c).fee_rate # FEE_LOCK_RATE
    /\ \E c \in Processed : EnterOpen(c) /\ Out(c).fee_rate # Zero
    /\ \E c \in Processed : Out(c).fee_rate = HalfMax

(***************************************************************************)
(* C10, over the runs of SpecIdle.                                         *)
(***************************************************************************)
BaseAtMin ==
    \A cp \in DOMAIN node_policies :
        node_policies[cp].base_fee_msat = params.min_base_fee_msat

\* C10 as stated: the base fee of a channel without outward forwardings
\* never increases from one run to the next.
C10_BaseNeverIncreases ==
    [][\A cp \in DOMAIN node_policies :
           node_policies'[cp].base_fee_msat
               <= node_policies[cp].base_fee_msat]_vars

\* C10 amended: a run leaves the base fee of such a channel at
\* min_base_fee when it is at or below min_base_fee (raising it when it is
\* below), lowers it strictly without going under min_base_fee when it is
\* above, and after finitely many runs the base fee is min_base_fee for
\* good.
C10_BaseDecay ==
    /\ [][\A cp \in DOMAIN node_policies :
              LET old == node_policies[cp].base_fee_msat
                  new == node_policies'[cp].base_fee_msat
                  min == params.min_base_fee_msat
                  scaled == (3 * old) \div 4
              IN  pc = "confirm" =>
                      /\ new = IF scaled > min THEN scaled ELSE min
                      /\ IF old <= min
                         THEN new = min
                         ELSE min <= new /\ new < old]_vars
    /\ <>[]BaseAtMin

C10_Witness ==
    /\ pc = "idle"
    /\ BaseAtMin
    /\ \E cp \in DOMAIN node_policies :
           node_policies[cp].fee_rate = FEE_LOCK_RATE
    /\ \E cp \in DOMAIN node_policies :
           channel_fee_policies[cp].base_fee_msat > params.min_base_fee_msat

====
